---- MODULE Spec2Model ----
(***************************************************************************)
(* Model of the SoftYPM MCP server: the tool dispatcher (SoftYPMServer,    *)
(* src/unnamed/part_000) and the backend gateway (SoftYPMClient,           *)
(* src/src/softypm-client.ts).                                             *)
(*                                                                         *)
(* Every tool handler is an async function.  The part of a handler that    *)
(* runs between two awaits is one atomic step; at an await the handler     *)
(* yields and any other pending tool call may run.  Nothing in the         *)
(* repository queues or locks tool calls, so up to MaxInFlight handlers    *)
(* are in flight at once.                                                  *)
(***************************************************************************)
EXTENDS Integers, Sequences, FiniteSets, TLC

(***************************************************************************)
(* Bounds of the model.                                                    *)
(***************************************************************************)
MaxInFlight == 2      \* tool calls that may be pending at the same time
MaxProject  == 2      \* project ids 1..MaxProject exist in the backend
MaxStories  == 12     \* stories a project holds, at most

(***************************************************************************)
(* JavaScript values.  A value is a record so that numbers, strings, null, *)
(* undefined and NaN can be compared with one another.                     *)
(***************************************************************************)
Num(n) == [kind |-> "num", n |-> n, s |-> ""]
Str(x) == [kind |-> "str", n |-> 0, s |-> x]
Null   == [kind |-> "null", n |-> 0, s |-> ""]
Undef  == [kind |-> "undefined", n |-> 0, s |-> ""]
NaN    == [kind |-> "nan", n |-> 0, s |-> ""]
Bool(b) == [kind |-> "bool", n |-> IF b THEN 1 ELSE 0, s |-> ""]

IsNum(v) == v.kind = "num"
IsStr(v) == v.kind = "str"

\* JavaScript truthiness: what `!x` and `a || b` test.
Truthy(v) ==
    CASE v.kind = "num" -> v.n # 0
      [] v.kind = "str" -> v.s # ""
      [] v.kind = "bool" -> v.n = 1
      [] OTHER -> FALSE

\* a || b
Or(a, b) == IF Truthy(a) THEN a ELSE b

\* parseInt on the strings the model uses: a leading decimal integer, else NaN.
ParseInt(x) ==
    CASE x = "0" -> Num(0)
      [] x = "1" -> Num(1)
      [] x = "2" -> Num(2)
      [] x = "3" -> Num(3)
      [] x = "4" -> Num(4)
      [] x = "5" -> Num(5)
      [] OTHER -> NaN

\* typeof v === 'string' ? parseInt(v) : v
ToStatus(v) == IF IsStr(v) THEN ParseInt(v.s) ELSE v


\* a === b on the values above (NaN equals nothing).
StrictEq(a, b) == a.kind # "nan" /\ a = b

(***************************************************************************)
(* Tool arguments.  One record shape serves the six tools; a field the     *)
(* caller did not send is Undef, and a schema reads only its own fields.   *)
(***************************************************************************)
Args(pid, sid, st, nm, de, es, ep, no) ==
    [project_id |-> pid, story_id |-> sid, status |-> st, name |-> nm,
     description |-> de, estimate |-> es, epic_id |-> ep, notes |-> no]

NoArgs == Args(Undef, Undef, Undef, Undef, Undef, Undef, Undef, Undef)

EstimateCap == 8            \* z.number().positive().max(8)
LargeStoryThreshold == 6    \* estimate > 6
StatusMin == 1              \* z.number().min(1)
StatusMax == 5              \* z.number().max(5)

\* z.number().positive().optional() and friends, on one field.
OptionalNumber(v) == v = Undef \/ IsNum(v)
OptionalPositive(v) == v = Undef \/ (IsNum(v) /\ v.n > 0)
OptionalString(v) == v = Undef \/ IsStr(v)

CreateStorySchema(a) ==
    /\ IsStr(a.name) /\ a.name.s # ""
    /\ OptionalString(a.description)
    /\ a.estimate = Undef \/ (IsNum(a.estimate) /\ a.estimate.n > 0 /\ a.estimate.n <= EstimateCap)
    /\ OptionalNumber(a.epic_id)
    /\ OptionalNumber(a.project_id)

UpdateStoryStatusSchema(a) ==
    /\ IsNum(a.story_id) /\ a.story_id.n > 0
    /\ \/ a.status \in {Str("1"), Str("3"), Str("5")}
       \/ IsNum(a.status) /\ a.status.n >= StatusMin /\ a.status.n <= StatusMax
    /\ OptionalString(a.notes)

GetProjectSchema(a) == OptionalPositive(a.project_id)

SetProjectContextSchema(a) == IsNum(a.project_id) /\ a.project_id.n > 0

GetStorySchema(a) == IsNum(a.story_id)

ListStoriesSchema(a) ==
    /\ a.status \in {Undef, Str("1"), Str("3"), Str("5"), Str("all")}
    /\ OptionalNumber(a.project_id)

(***************************************************************************)
(* The tool calls a host may send.                                         *)
(***************************************************************************)
ProjectIds == 1..MaxProject
StoryIds == {1}

ProjectIdArgs == {Undef, Num(0)} \cup {Num(p) : p \in ProjectIds}
EstimateArgs ==
    {Undef, Num(0), Num(1), Num(LargeStoryThreshold), Num(LargeStoryThreshold + 1),
     Num(EstimateCap), Num(EstimateCap + 1)}
StatusArgs ==
    {Num(n) : n \in (StatusMin - 1)..(StatusMax + 1)} \cup {Str("2")}

SetContextCalls ==
    {<<"set_project_context", [NoArgs EXCEPT !.project_id = p]>> : p \in ProjectIdArgs}

GetInfoCalls ==
    {<<"get_project_info", [NoArgs EXCEPT !.project_id = p]>> : p \in ProjectIdArgs}

CreateCalls ==
    {<<"create_story", [NoArgs EXCEPT !.name = Str("s"), !.estimate = e]>> :
        e \in EstimateArgs}
    \cup {<<"create_story", [NoArgs EXCEPT !.name = Str("s"), !.estimate = Num(1),
                                           !.project_id = p]>> :
             p \in ProjectIdArgs \ {Undef}}
    \cup {<<"create_story", [NoArgs EXCEPT !.name = Str("s"),
                                           !.estimate = Num(LargeStoryThreshold + 1),
                                           !.project_id = Num(p)]>> :
             p \in ProjectIds}
    \cup {<<"create_story", [NoArgs EXCEPT !.name = n, !.description = Str("d"),
                                           !.epic_id = Num(1), !.project_id = Num(1)]>> :
             n \in {Str(""), Str("s")}}
    \cup {<<"create_story", NoArgs>>}

UpdateCalls ==
    {<<"update_story_status", [NoArgs EXCEPT !.story_id = Num(1), !.status = t]>> :
        t \in StatusArgs}
    \cup {<<"update_story_status", [NoArgs EXCEPT !.story_id = i, !.status = Str("3"),
                                                  !.notes = Str("n")]>> :
             i \in {Num(0), Num(1)}}
    \cup {<<"update_story_status", [NoArgs EXCEPT !.story_id = Num(1)]>>}

GetStoryCalls ==
    {<<"get_story", [NoArgs EXCEPT !.story_id = i]>> : i \in {Undef, Num(1)}}

ListCalls ==
    {<<"list_my_stories", [NoArgs EXCEPT !.status = f]>> :
        f \in {Undef, Str("1"), Str("3"), Str("all"), Str("2")}}
    \cup {<<"list_my_stories", [NoArgs EXCEPT !.project_id = p]>> :
             p \in ProjectIdArgs \ {Undef}}

ToolCalls ==
    SetContextCalls \cup GetInfoCalls \cup CreateCalls \cup UpdateCalls
    \cup GetStoryCalls \cup ListCalls \cup {<<"delete_story", NoArgs>>}

(***************************************************************************)
(* Backend gateway (SoftYPMClient).                                        *)
(***************************************************************************)
\* One HTTP request of the gateway: the operation, the project or story id in
\* its URL or body, and the status field of its body (0 when it has none).
Request(op, id, status) == [op |-> op, id |-> id, status |-> status]

\* What the transport delivers for one request: the HTTP status (0: no
\* response was received) and the `success` flag of the JSON body.
Response(http, success) == [http |-> http, success |-> success]
Responses ==
    {Response(200, TRUE), Response(200, FALSE), Response(201, TRUE),
     Response(201, FALSE), Response(404, FALSE), Response(0, FALSE)}

\* axios resolves on a 2xx status and rejects on everything else.
Resolves(r) == r.http >= 200 /\ r.http < 300

\* What the transport delivers, in full: the HTTP status (0: no response was
\* received), whether the request was sent at all, whether the body is an
\* object ("object") or null ("null"), and the body's `success` and `message`
\* fields (Undef when the body has none).
\* An epic of the structure endpoint's project: its stories (their ids), or
\* no `stories` field.
Epic(list) == [hasStories |-> TRUE, stories |-> list]
BareEpic == [hasStories |-> FALSE, stories |-> <<>>]

\* response.data.data of the structure endpoint: whether it is there, whether
\* it has a project, and the project's `epics` and `stories` fields, each of
\* which may be missing.
Data(present, project, hasEpics, epics, hasStories, list) ==
    [present |-> present, project |-> project, hasEpics |-> hasEpics, epics |-> epics,
     hasStories |-> hasStories, stories |-> list]

NoData == Data(FALSE, FALSE, FALSE, <<>>, FALSE, <<>>)

Outcome(http, request, body, success, message) ==
    [http |-> http, request |-> request, body |-> body,
     success |-> success, message |-> message, data |-> NoData]

\* A response of the structure endpoint.
StructureOutcome(http, success, data) ==
    [Outcome(http, TRUE, "object", success, Undef) EXCEPT !.data = data]

\* error.response.statusText
StatusText(http) == Str("status text")

\* An error the gateway throws: its kind (the fixed part of the message) and
\* the part of the message taken from the failed request.
Error(kind, message) == [kind |-> kind, message |-> message]

\* Mutant of InterceptorError: no case for 404.
InterceptorErrorNoNotFound(e) ==
    IF e.http # 0
    THEN CASE e.http = 401 -> Error("Authentication failed", "")
           [] e.http = 403 -> Error("Access denied", "")
           [] e.http >= 500 -> Error("SoftYPM server error", "")
           [] OTHER -> Error("API Error", Or(e.message, StatusText(e.http)).s)
    ELSE IF e.request THEN Error("Unable to connect to SoftYPM", "")
    ELSE Error("Request failed", "")

\* The response interceptor's rejection handler: e.http # 0 is error.response,
\* e.request is error.request, e.message is error.response.data?.message.
InterceptorError(e) ==
    IF e.http # 0
    THEN CASE e.http = 401 -> Error("Authentication failed", "")
           [] e.http = 403 -> Error("Access denied", "")
           [] e.http = 404 -> Error("Resource not found", "")
           [] e.http >= 500 -> Error("SoftYPM server error", "")
           [] OTHER -> Error("API Error", Or(e.message, StatusText(e.http)).s)
    ELSE IF e.request THEN Error("Unable to connect to SoftYPM", "")
    ELSE Error("Request failed", "")

\* The response interceptor's message for a rejected request of a tool call
\* (the request was sent; the body's message is not modelled there).
Interceptor(r) ==
    InterceptorError([http |-> r.http, request |-> TRUE, message |-> Undef]).kind

\* Mutant of StatusWriteThrows: the success flag alone decides.
StatusWriteThrowsOnFlag(r) == ~r.success

\* updateStoryStatus: throws on a delivered response only when the body does
\* not report success and the status is not 200.
StatusWriteThrows(r) == ~r.success /\ r.http # 200

\* getProjectStories: the structure endpoint must report success.
StructureThrows(r) == ~r.success

\* Does the gateway operation `op` throw on response r ?
GatewayThrows(op, r) ==
    \/ ~Resolves(r)
    \/ op = "updateStoryStatus" /\ StatusWriteThrows(r)
    \/ op = "getProjectStories" /\ StructureThrows(r)

\* The message of the error the gateway operation throws on response r.
GatewayMessage(op, r) ==
    IF ~Resolves(r) THEN Interceptor(r)
    ELSE IF op = "updateStoryStatus" THEN "Failed to update story status"
    ELSE "Unable to get project stories from structure endpoint"

\* What a gateway operation hands to its caller: a value, or a thrown error.
Probe(op, kind, value, error) == [op |-> op, kind |-> kind, value |-> value, error |-> error]

NoError == Error("", "")

\* The try block of healthCheck: the GET, then `response.data.success === true`
\* (reading a field of a null body throws a TypeError).
healthCheckTry(o) ==
    IF ~Resolves(o) THEN Probe("healthCheck", "throw", FALSE, InterceptorError(o))
    ELSE IF o.body = "null" THEN Probe("healthCheck", "throw", FALSE, Error("TypeError", ""))
    ELSE Probe("healthCheck", "return", StrictEq(o.success, Bool(TRUE)), NoError)

\* Mutant of healthCheck: no catch.
healthCheckUncaught(o) == healthCheckTry(o)

\* healthCheck: whatever the try block throws becomes `return false`.
healthCheck(o) ==
    IF healthCheckTry(o).kind = "throw"
    THEN Probe("healthCheck", "return", FALSE, NoError)
    ELSE healthCheckTry(o)

\* epics.forEach(epic => { if (epic.stories) stories.push(...epic.stories) })
RECURSIVE EpicStories(_)
EpicStories(epics) ==
    IF epics = <<>> THEN <<>>
    ELSE (IF Head(epics).hasStories THEN Head(epics).stories ELSE <<>>)
             \o EpicStories(Tail(epics))

\* Mutant of getProjectStoriesTry: a response without the structure counts
\* as a project without stories.
getProjectStoriesTryLenient(o) ==
    IF ~Resolves(o) THEN Probe("getProjectStories", "throw", <<>>, InterceptorError(o))
    ELSE IF o.body = "object" /\ Truthy(o.success) /\ o.data.present /\ o.data.project
    THEN Probe("getProjectStories", "return",
               (IF o.data.hasEpics THEN EpicStories(o.data.epics) ELSE <<>>)
                   \o (IF o.data.hasStories THEN o.data.stories ELSE <<>>),
               NoError)
    ELSE Probe("getProjectStories", "return", <<>>, NoError)

\* The try block of getProjectStories: the GET, the check of
\* `response.data.success && response.data.data`, the stories of the epics and
\* then of the project; reading a field of a null body or of a missing
\* project throws a TypeError.
getProjectStoriesTry(o) ==
    IF ~Resolves(o) THEN Probe("getProjectStories", "throw", <<>>, InterceptorError(o))
    ELSE IF o.body = "null"
    THEN Probe("getProjectStories", "throw", <<>>, Error("TypeError", ""))
    ELSE IF Truthy(o.success) /\ o.data.present
    THEN IF ~o.data.project
         THEN Probe("getProjectStories", "throw", <<>>, Error("TypeError", ""))
         ELSE Probe("getProjectStories", "return",
                    (IF o.data.hasEpics THEN EpicStories(o.data.epics) ELSE <<>>)
                        \o (IF o.data.hasStories THEN o.data.stories ELSE <<>>),
                    NoError)
    ELSE Probe("getProjectStories", "throw", <<>>,
               Error("Unable to get project stories from structure endpoint", ""))

\* getProjectStories: whatever the try block throws is thrown again, as
\* 'Failed to get stories for project <id>: <message>'.
getProjectStories(o) ==
    IF getProjectStoriesTry(o).kind = "throw"
    THEN Probe("getProjectStories", "throw", <<>>,
               Error("Failed to get stories for project", getProjectStoriesTry(o).error.kind))
    ELSE getProjectStoriesTry(o)

\* The backend applies a status write it answers with success; a write whose
\* response never arrives may or may not have been applied.
BackendApplies(r) ==
    IF r.http = 0 THEN BOOLEAN ELSE {Resolves(r) /\ r.success}

(***************************************************************************)
(* State.                                                                  *)
(***************************************************************************)
VARIABLES
    currentProjectId,   \* SoftYPMServer.currentProjectId: Null or a number
    storyStatus,        \* the backend's status of the story StoryIds holds
    calls,              \* the tool calls: where each handler stands
    stories,            \* a story list the gateway returned to a handler
    view,               \* what the handler rendered from `stories`
    outcome,            \* what the transport delivered for a gateway request
    probe               \* what the gateway made of `outcome`

vars == <<currentProjectId, storyStatus, calls, stories, view, outcome, probe>>

\* The variables of the rendering and gateway specifications below; the tool
\* calls of Spec leave them alone.
aside == <<stories, view, outcome, probe>>

NoView == [tool |-> "", filter |-> Undef, response |-> [text |-> ""]]
NoOutcome == Outcome(-1, FALSE, "null", Undef, Undef)
NoProbe == Probe("", "", FALSE, NoError)

Slots == 1..MaxInFlight

\* The parts of a response text that depend on data: the labels the invalid-
\* transition warning renders.
NoDetail == [from |-> "", to |-> "", current |-> "", steps |-> <<>>]

NoResult == [kind |-> "none", code |-> "", text |-> "", msg |-> "", detail |-> NoDetail]

\* No response consumed yet.
NoResponse == Response(-1, FALSE)

\* A handler: its await point (pc, the gateway operation it waits for), the
\* tool and arguments of the request, its local variables, the gateway
\* requests it has issued so far, what it handed back to the host, and the
\* response its last await had consumed when it finished.
Idle ==
    [pc |-> "idle", tool |-> "", args |-> NoArgs, projectId |-> Undef,
     currentStatus |-> Undef, net |-> <<>>, result |-> NoResult, resp |-> NoResponse,
     failed |-> FALSE]

\* return { content: [{ type: 'text', text }] }
Returned(c, text) ==
    [c EXCEPT !.pc = "done",
              !.result = [kind |-> "return", code |-> "", text |-> text, msg |-> "",
                          detail |-> NoDetail]]

\* throw new McpError(code, `${text}: ${msg}`)
Raised(c, code, text, msg) ==
    [c EXCEPT !.pc = "done",
              !.result = [kind |-> "raise", code |-> code, text |-> text, msg |-> msg,
                          detail |-> NoDetail]]

\* An error that is no McpError (here: the ZodError of a schema's parse)
\* reaches the dispatcher's catch, which wraps it.
ToolExecutionFailed(c, msg) == Raised(c, "InternalError", "Tool execution failed", msg)

\* await this.softYPMClient.<op>(...): the request goes out, the handler yields.
Await(c, req) == [c EXCEPT !.pc = req.op, !.net = Append(@, req)]

\* The handler finished on response r.
\* The request whose response handler c has just consumed: its last one when
\* it finished, the one before the request it now waits for otherwise.
Answered(c) == c.net[IF c.pc = "done" THEN Len(c.net) ELSE Len(c.net) - 1]

\* The handler consumed response r: whether the gateway call failed on it is
\* kept, and r itself once the handler has finished.
Settled(c, r) ==
    [c EXCEPT !.resp = IF c.pc = "done" THEN r ELSE @,
              !.failed = GatewayThrows(Answered(c).op, r)]

(***************************************************************************)
(* Tool dispatcher (SoftYPMServer): each handler up to its first await.    *)
(***************************************************************************)
InitialStatus == 1    \* status: 1, // Start in backlog

\* Mutants of ResolveProjectId: a hard-coded default project when nothing
\* resolves; the session context ignored.
ResolveProjectIdDefault(explicit, ctx) == Or(Or(explicit, ctx), Num(1))
ResolveProjectIdExplicitOnly(explicit, ctx) == explicit

\* project_id || this.currentProjectId
ResolveProjectId(explicit, ctx) == Or(explicit, ctx)

NoProjectContext(c) == Raised(c, "InvalidRequest", "No project context set", "")

\* Mutant of StoryTooLarge: the threshold itself counts as too large.
StoryTooLargeInclusive(estimate) == Truthy(estimate) /\ estimate.n >= LargeStoryThreshold

\* estimate && estimate > 6
StoryTooLarge(estimate) == Truthy(estimate) /\ estimate.n > LargeStoryThreshold

\* Mutant of validTransitions: the linear workflow of the README.
validTransitionsLinear(k) ==
    CASE k = 1 -> <<3>>
      [] k = 3 -> <<5>>
      [] OTHER -> <<>>

\* validTransitions: the allowed targets of a current status.
validTransitions(k) ==
    CASE k = 1 -> <<3>>
      [] k = 3 -> <<5, 1>>
      [] k = 5 -> <<1, 3>>
      [] OTHER -> <<>>

\* Mutant of TransitionAllowed: any target is allowed from a known status.
TransitionAllowedAny(cur, target) ==
    IsNum(cur) /\ Len(validTransitions(cur.n)) > 0

\* validTransitions[currentStatus]?.includes(targetStatus)
TransitionAllowed(cur, target) ==
    /\ IsNum(cur)
    /\ \E i \in DOMAIN validTransitions(cur.n) :
          StrictEq(Num(validTransitions(cur.n)[i]), target)

\* statusNames[k] inside a template literal: a status without a label renders
\* as the text 'undefined'.
statusNames(v) ==
    IF ~IsNum(v) THEN "undefined"
    ELSE CASE v.n = 1 -> "Backlog"
           [] v.n = 3 -> "In Progress"
           [] v.n = 5 -> "Done"
           [] OTHER -> "undefined"

\* The text of the invalid-transition warning: 'Cannot move story from <from>
\* to <to>', 'Current status: <current>', 'Valid next steps: <steps>'.  A
\* current status without a row in validTransitions renders its steps as
\* 'undefined' (validTransitions[currentStatus]?.map(...) is undefined).
InvalidTransitionWarning(currentStatus, targetStatus) ==
    [from |-> statusNames(currentStatus),
     to |-> statusNames(targetStatus),
     current |-> statusNames(currentStatus),
     steps |-> IF IsNum(currentStatus) /\ Len(validTransitions(currentStatus.n)) > 0
               THEN [i \in DOMAIN validTransitions(currentStatus.n) |->
                        statusNames(Num(validTransitions(currentStatus.n)[i]))]
               ELSE <<"undefined">>]

\* Mutant of CreateStoryData: a story with an estimate starts In Progress.
CreateStoryDataEstimated(args, targetProjectId) ==
    Request("createStory", targetProjectId.n, IF Truthy(args.estimate) THEN 3 ELSE InitialStatus)

\* The body of the create request: the caller's fields go through unchanged
\* (not modelled), the project is the resolved one, the status is a literal.
CreateStoryData(args, targetProjectId) ==
    Request("createStory", targetProjectId.n, InitialStatus)

setProjectContext(c, ctx) ==
    IF ~SetProjectContextSchema(c.args) THEN ToolExecutionFailed(c, "ZodError")
    ELSE Await(c, Request("getProject", c.args.project_id.n, 0))

getProjectInfo(c, ctx) ==
    IF ~GetProjectSchema(c.args) THEN ToolExecutionFailed(c, "ZodError")
    ELSE LET projectId == ResolveProjectId(c.args.project_id, ctx)
             d == [c EXCEPT !.projectId = projectId]
         IN IF ~Truthy(projectId) THEN NoProjectContext(d)
            ELSE Await(d, Request("getProject", projectId.n, 0))

createStory(c, ctx) ==
    IF ~CreateStorySchema(c.args) THEN ToolExecutionFailed(c, "ZodError")
    ELSE LET targetProjectId == ResolveProjectId(c.args.project_id, ctx)
             d == [c EXCEPT !.projectId = targetProjectId]
         IN IF ~Truthy(targetProjectId) THEN NoProjectContext(d)
            ELSE IF StoryTooLarge(c.args.estimate) THEN Returned(d, "Story Too Large")
            ELSE Await(d, CreateStoryData(c.args, targetProjectId))

updateStoryStatus(c, ctx) ==
    IF ~UpdateStoryStatusSchema(c.args) THEN ToolExecutionFailed(c, "ZodError")
    ELSE Await(c, Request("getStory", c.args.story_id.n, 0))

\* Mutant of getStory: the arguments are used without being parsed.
getStoryUnchecked(c, ctx) == Await(c, Request("getStory", c.args.story_id.n, 0))

getStory(c, ctx) ==
    IF ~GetStorySchema(c.args) THEN ToolExecutionFailed(c, "ZodError")
    ELSE Await(c, Request("getStory", c.args.story_id.n, 0))

listStories(c, ctx) ==
    IF ~ListStoriesSchema(c.args) THEN ToolExecutionFailed(c, "ZodError")
    ELSE LET targetProjectId == ResolveProjectId(c.args.project_id, ctx)
             d == [c EXCEPT !.projectId = targetProjectId]
         IN IF ~Truthy(targetProjectId) THEN NoProjectContext(d)
            ELSE Await(d, Request("getProjectStories", targetProjectId.n, 0))

(***************************************************************************)
(* Backend data.                                                           *)
(***************************************************************************)
\* The statuses the backend may hold for a story: the three of the workflow,
\* one outside it, and one in string form.
BackendStatuses == {Num(1), Num(2), Num(3), Num(5), Str("3")}

\* The stories the structure endpoint returns for a project: the story of
\* StoryIds belongs to project 1, the other projects have none.
ProjectStories(p, status) ==
    IF p = 1 THEN <<[id |-> 1, status |-> status]>> ELSE <<>>

\* Mutant of FilterByStatus: the status of a story is compared as it is.
FilterByStatusStrict(list, target) ==
    SelectSeq(list, LAMBDA st : StrictEq(st.status, target))

\* stories.filter(s => parseInt-or-number(s.status) === targetStatus)
FilterByStatus(list, target) ==
    SelectSeq(list, LAMBDA st : StrictEq(ToStatus(st.status), target))

DisplayCap == 10    \* .slice(0, 10)
NextCap == 3        \* .slice(0, 3)

\* array.slice(0, k)
Slice(seq, k) == SubSeq(seq, 1, IF Len(seq) < k THEN Len(seq) ELSE k)

\* A rendered story line: '#<id>: <name> [<label>]'.
StoryLine(st) == [id |-> st.id, label |-> statusNames(ToStatus(st.status))]

\* Mutant of ListStoriesResponse: the omitted count is taken from the whole
\* story list.
ListStoriesResponseUnfiltered(list, filter) ==
    LET filtering == Truthy(filter) /\ filter # Str("all")
        filteredStories ==
            IF filtering THEN FilterByStatus(list, ParseInt(filter.s)) ELSE list
        name == IF filtering THEN statusNames(ParseInt(filter.s)) ELSE ""
    IN IF Len(filteredStories) = 0
       THEN [text |-> "No Stories Found", name |-> name, list |-> <<>>, more |-> <<>>]
       ELSE [text |-> "Stories", name |-> name,
             list |-> [i \in DOMAIN Slice(filteredStories, DisplayCap) |->
                          StoryLine(filteredStories[i])],
             more |-> IF Len(list) > DisplayCap
                      THEN <<Len(list) - DisplayCap>> ELSE <<>>]

\* listStories once the stories are there: the filter, the empty case, the
\* first DisplayCap lines and the '... and N more' suffix (<<N>>, or <<>> when
\* the text has none).
ListStoriesResponse(list, filter) ==
    LET filtering == Truthy(filter) /\ filter # Str("all")
        filteredStories ==
            IF filtering THEN FilterByStatus(list, ParseInt(filter.s)) ELSE list
        name == IF filtering THEN statusNames(ParseInt(filter.s)) ELSE ""
    IN IF Len(filteredStories) = 0
       THEN [text |-> "No Stories Found", name |-> name, list |-> <<>>, more |-> <<>>]
       ELSE [text |-> "Stories", name |-> name,
             list |-> [i \in DOMAIN Slice(filteredStories, DisplayCap) |->
                          StoryLine(filteredStories[i])],
             more |-> IF Len(filteredStories) > DisplayCap
                      THEN <<Len(filteredStories) - DisplayCap>> ELSE <<>>]

\* Mutant of ProjectInfoResponse: the next stories always come from the
\* backlog.
ProjectInfoResponseBacklog(list) ==
    LET backlogStories == FilterByStatus(list, Num(1))
        inProgressStories == FilterByStatus(list, Num(3))
        doneStories == FilterByStatus(list, Num(5))
    IN [text |-> "Project info",
        done |-> Len(doneStories), inProgress |-> Len(inProgressStories),
        backlog |-> Len(backlogStories),
        next |-> [i \in DOMAIN Slice(backlogStories, NextCap) |-> backlogStories[i].id]]

\* getProjectInfo once the stories are there: the three counts and the ids
\* of the 'next stories to work on'.
ProjectInfoResponse(list) ==
    LET backlogStories == FilterByStatus(list, Num(1))
        inProgressStories == FilterByStatus(list, Num(3))
        doneStories == FilterByStatus(list, Num(5))
        nextStories == IF Len(inProgressStories) > 0
                       THEN Slice(inProgressStories, NextCap)
                       ELSE Slice(backlogStories, NextCap)
    IN [text |-> "Project info",
        done |-> Len(doneStories), inProgress |-> Len(inProgressStories),
        backlog |-> Len(backlogStories),
        next |-> [i \in DOMAIN nextStories |-> nextStories[i].id]]

(***************************************************************************)
(* Each handler from one await to the next: c is the handler, r the        *)
(* response its await ends with.                                           *)
(***************************************************************************)
LastRequest(c) == c.net[Len(c.net)]

setProjectContextFetched(c, r) ==
    IF GatewayThrows("getProject", r)
    THEN Raised(c, "InvalidRequest", "Failed to set project context",
                GatewayMessage("getProject", r))
    ELSE Returned(c, "Project context set")

\* Mutants of getProjectInfoFetched: the stories are fetched whatever became
\* of the project fetch; the project id is resolved again for the second
\* fetch.
getProjectInfoFetchedTolerant(c, r) ==
    Await(c, Request("getProjectStories", c.projectId.n, 0))
getProjectInfoFetchedReresolve(c, r) ==
    IF GatewayThrows("getProject", r)
    THEN Raised(c, "InternalError", "Failed to get project info",
                GatewayMessage("getProject", r))
    ELSE Await(c, Request("getProjectStories",
                          ResolveProjectId(c.args.project_id, currentProjectId).n, 0))

getProjectInfoFetched(c, r) ==
    IF GatewayThrows("getProject", r)
    THEN Raised(c, "InternalError", "Failed to get project info",
                GatewayMessage("getProject", r))
    ELSE Await(c, Request("getProjectStories", c.projectId.n, 0))

getProjectInfoStories(c, r, status) ==
    IF GatewayThrows("getProjectStories", r)
    THEN Raised(c, "InternalError", "Failed to get project info",
                GatewayMessage("getProjectStories", r))
    ELSE Returned(c, ProjectInfoResponse(ProjectStories(c.projectId.n, status)).text)

createStoryCreated(c, r) ==
    IF GatewayThrows("createStory", r)
    THEN Raised(c, "InternalError", "Failed to create story",
                GatewayMessage("createStory", r))
    ELSE Returned(c, "Story Created")

\* The transition guard: the warning, or the write.
updateStoryStatusFetched(c, r, status) ==
    IF GatewayThrows("getStory", r)
    THEN Raised(c, "InternalError", "Failed to update story status",
                GatewayMessage("getStory", r))
    ELSE LET targetStatus == ToStatus(c.args.status)
             currentStatus == ToStatus(status)
             d == [c EXCEPT !.currentStatus = currentStatus]
         IN IF ~TransitionAllowed(currentStatus, targetStatus)
            THEN [Returned(d, "Invalid Workflow Transition") EXCEPT
                     !.result.detail = InvalidTransitionWarning(currentStatus, targetStatus)]
            ELSE Await(d, Request("updateStoryStatus", c.args.story_id.n, targetStatus.n))

\* Mutant of updateStoryStatusWritten: the confirmation is returned whatever
\* became of the write.
updateStoryStatusWrittenOptimistic(c, r) == Returned(c, "Story Updated")

updateStoryStatusWritten(c, r) ==
    IF GatewayThrows("updateStoryStatus", r)
    THEN Raised(c, "InternalError", "Failed to update story status",
                GatewayMessage("updateStoryStatus", r))
    ELSE [Returned(c, "Story Updated") EXCEPT
             !.result.detail = [NoDetail EXCEPT
                                   !.from = statusNames(c.currentStatus),
                                   !.to = statusNames(ToStatus(c.args.status))]]

\* Mutant of getStoryFetched: a failed fetch is answered with an empty story.
getStoryFetchedSwallow(c, r) == Returned(c, "Story")

getStoryFetched(c, r) ==
    IF GatewayThrows("getStory", r)
    THEN Raised(c, "InternalError", "Failed to get story", GatewayMessage("getStory", r))
    ELSE Returned(c, "Story")

listStoriesFetched(c, r, status) ==
    IF GatewayThrows("getProjectStories", r)
    THEN Raised(c, "InternalError", "Failed to list stories",
                GatewayMessage("getProjectStories", r))
    ELSE Returned(c, ListStoriesResponse(ProjectStories(c.projectId.n, status),
                                         c.args.status).text)

\* The CallToolRequestSchema handler's switch on the tool name.
CallTool(tool, args, ctx) ==
    LET c == [Idle EXCEPT !.tool = tool, !.args = args] IN
    CASE tool = "set_project_context" -> setProjectContext(c, ctx)
      [] tool = "get_project_info" -> getProjectInfo(c, ctx)
      [] tool = "create_story" -> createStory(c, ctx)
      [] tool = "update_story_status" -> updateStoryStatus(c, ctx)
      [] tool = "get_story" -> getStory(c, ctx)
      [] tool = "list_my_stories" -> listStories(c, ctx)
      [] OTHER -> Raised(c, "MethodNotFound", "Unknown tool", "")

\* A handler that has finished hands its response to the transport in the
\* same turn of the event loop, before any other handler resumes and before
\* another request is read: its record lasts for one state, as the
\* observation of the finished call.
Sent(cs) == [s \in Slots |-> IF cs[s].pc = "done" THEN Idle ELSE cs[s]]

\* The slots are interchangeable: a new call takes the lowest free one.
Free(s) ==
    /\ calls[s].pc \in {"idle", "done"}
    /\ \A u \in Slots : u < s => calls[u].pc \notin {"idle", "done"}

(***************************************************************************)
(* Actions.                                                                *)
(***************************************************************************)
\* currentProjectId after the constructor: null, or DEFAULT_PROJECT_ID parsed
\* (taken to name a project when it is set).
DefaultProjectIds == {Null, Num(1)}

Init ==
    /\ currentProjectId \in DefaultProjectIds
    /\ storyStatus \in BackendStatuses
    /\ calls = [s \in Slots |-> Idle]
    /\ stories = <<>> /\ view = NoView
    /\ outcome = NoOutcome /\ probe = NoProbe

\* A tool call arrives and its handler runs up to its first await (or to its
\* end, when it returns or throws before any await).
StartCall(s) ==
    /\ Free(s)
    /\ \E tc \in ToolCalls :
          calls' = [Sent(calls) EXCEPT ![s] = CallTool(tc[1], tc[2], currentProjectId)]
    /\ UNCHANGED <<currentProjectId, storyStatus, aside>>

\* Handler `op` of slot s stands at the await of gateway operation `pc`.
At(s, tool, pc) == calls[s].tool = tool /\ calls[s].pc = pc

\* Mutant of SetContextFetched: the context is assigned before the fetch is
\* known to have succeeded.
SetContextFetchedEager(s) ==
    /\ At(s, "set_project_context", "getProject")
    /\ \E r \in Responses :
          /\ calls' = [Sent(calls) EXCEPT ![s] = Settled(setProjectContextFetched(@, r), r)]
          /\ currentProjectId' = calls[s].args.project_id
    /\ UNCHANGED <<storyStatus, aside>>

\* setProjectContext after `await this.softYPMClient.getProject(project_id)`:
\* the context is assigned only when the gateway did not throw.
SetContextFetched(s) ==
    /\ At(s, "set_project_context", "getProject")
    /\ \E r \in Responses :
          /\ calls' = [Sent(calls) EXCEPT ![s] = Settled(setProjectContextFetched(@, r), r)]
          /\ currentProjectId' = IF GatewayThrows("getProject", r)
                                 THEN currentProjectId
                                 ELSE calls[s].args.project_id
    /\ UNCHANGED <<storyStatus, aside>>

\* Mutant of InfoProjectFetched: the handler remembers the project it used.
InfoProjectFetchedRemembers(s) ==
    /\ At(s, "get_project_info", "getProject")
    /\ \E r \in Responses :
          calls' = [Sent(calls) EXCEPT ![s] = Settled(getProjectInfoFetched(@, r), r)]
    /\ currentProjectId' = calls[s].projectId
    /\ UNCHANGED <<storyStatus, aside>>

\* getProjectInfo after `await this.softYPMClient.getProject(projectId)`.
InfoProjectFetched(s) ==
    /\ At(s, "get_project_info", "getProject")
    /\ \E r \in Responses :
          calls' = [Sent(calls) EXCEPT ![s] = Settled(getProjectInfoFetched(@, r), r)]
    /\ UNCHANGED <<currentProjectId, storyStatus, aside>>

\* getProjectInfo after `await this.softYPMClient.getProjectStories(projectId)`.
InfoStoriesFetched(s) ==
    /\ At(s, "get_project_info", "getProjectStories")
    /\ \E r \in Responses :
          calls' = [Sent(calls) EXCEPT ![s] = Settled(getProjectInfoStories(@, r, storyStatus), r)]
    /\ UNCHANGED <<currentProjectId, storyStatus, aside>>

\* createStory after `await this.softYPMClient.createStory({...})`.
StoryCreated(s) ==
    /\ At(s, "create_story", "createStory")
    /\ \E r \in Responses :
          calls' = [Sent(calls) EXCEPT ![s] = Settled(createStoryCreated(@, r), r)]
    /\ UNCHANGED <<currentProjectId, storyStatus, aside>>

\* updateStoryStatus after `await this.softYPMClient.getStory(story_id)`: the
\* story comes back with the status the backend holds now.
UpdateStoryFetched(s) ==
    /\ At(s, "update_story_status", "getStory")
    /\ \E r \in Responses :
          calls' = [Sent(calls) EXCEPT ![s] =
                       Settled(updateStoryStatusFetched(@, r, storyStatus), r)]
    /\ UNCHANGED <<currentProjectId, storyStatus, aside>>

\* updateStoryStatus after `await this.softYPMClient.updateStoryStatus(...)`;
\* the backend has handled the write by then.
StatusWritten(s) ==
    /\ At(s, "update_story_status", "updateStoryStatus")
    /\ \E r \in Responses : \E applied \in BackendApplies(r) :
          /\ storyStatus' = IF applied THEN Num(LastRequest(calls[s]).status)
                                       ELSE storyStatus
          /\ calls' = [Sent(calls) EXCEPT ![s] = Settled(updateStoryStatusWritten(@, r), r)]
    /\ UNCHANGED <<currentProjectId, aside>>

\* getStory after `await this.softYPMClient.getStory(story_id)`.
StoryFetched(s) ==
    /\ At(s, "get_story", "getStory")
    /\ \E r \in Responses :
          calls' = [Sent(calls) EXCEPT ![s] = Settled(getStoryFetched(@, r), r)]
    /\ UNCHANGED <<currentProjectId, storyStatus, aside>>

\* listStories after `await this.softYPMClient.getProjectStories(targetProjectId)`.
StoriesListed(s) ==
    /\ At(s, "list_my_stories", "getProjectStories")
    /\ \E r \in Responses :
          calls' = [Sent(calls) EXCEPT ![s] =
                       Settled(listStoriesFetched(@, r, storyStatus), r)]
    /\ UNCHANGED <<currentProjectId, storyStatus, aside>>

Next ==
    \E s \in Slots :
        \/ StartCall(s)
        \/ SetContextFetched(s)
        \/ InfoProjectFetched(s)
        \/ InfoStoriesFetched(s)
        \/ StoryCreated(s)
        \/ UpdateStoryFetched(s)
        \/ StatusWritten(s)
        \/ StoryFetched(s)
        \/ StoriesListed(s)

Spec == Init /\ [][Next]_vars

(***************************************************************************)
(* Rendering.  What get_project_info and list_my_stories make of the story *)
(* list the gateway returned: the list is drawn from StoryLists, and one   *)
(* step renders it.                                                        *)
(***************************************************************************)
\* Status patterns of a story list: the status of the story at position i.
StatusPattern(k, i) ==
    CASE k = 1 -> Num(1)
      [] k = 2 -> IF i = 2 THEN Num(1) ELSE Num(3)
      [] k = 3 -> <<Num(1), Num(3), Num(5)>>[(i % 3) + 1]
      [] k = 4 -> <<Str("3"), Num(2), Num(5), Num(3), Str("1")>>[(i % 5) + 1]
      [] k = 5 -> IF i <= 4 THEN Num(1) ELSE Num(5)

Patterns == 1..5

\* The story at position i has id i.
StoryLists ==
    {[i \in 1..n |-> [id |-> i, status |-> StatusPattern(k, i)]] :
        n \in 0..MaxStories, k \in Patterns}

ListFilters == {Undef, Str("all"), Str("1"), Str("3"), Str("5")}

Parked ==
    /\ currentProjectId = Num(1)
    /\ storyStatus = Num(1)
    /\ calls = [s \in Slots |-> Idle]

RenderInit ==
    /\ Parked
    /\ stories \in StoryLists /\ view = NoView
    /\ outcome = NoOutcome /\ probe = NoProbe

\* listStories, from the stories to the response.
StoriesRendered ==
    /\ view = NoView
    /\ \E f \in ListFilters :
          view' = [tool |-> "list_my_stories", filter |-> f,
                   response |-> ListStoriesResponse(stories, f)]
    /\ UNCHANGED <<currentProjectId, storyStatus, calls, stories, outcome, probe>>

\* getProjectInfo, from the stories to the response.
InfoRendered ==
    /\ view = NoView
    /\ view' = [tool |-> "get_project_info", filter |-> Undef,
                response |-> ProjectInfoResponse(stories)]
    /\ UNCHANGED <<currentProjectId, storyStatus, calls, stories, outcome, probe>>

RenderNext == StoriesRendered \/ InfoRendered

RenderSpec == RenderInit /\ [][RenderNext]_vars

(***************************************************************************)
(* Gateway.  What the health probe and the response interceptor make of a  *)
(* transport outcome: the outcome is drawn from Outcomes, and one step     *)
(* hands it to the gateway.                                                *)
(***************************************************************************)
HttpStatuses == {200, 201, 204, 302, 400, 401, 403, 404, 422, 499, 500, 503}

\* Bodies: <<body, success, message>>.
Bodies ==
    {<<"object", Bool(TRUE), Undef>>, <<"object", Bool(TRUE), Str("m")>>,
     <<"object", Bool(FALSE), Str("m")>>, <<"object", Bool(FALSE), Undef>>,
     <<"object", Str("true"), Undef>>, <<"object", Num(1), Undef>>,
     <<"object", Undef, Str("m")>>, <<"object", Undef, Str("")>>,
     <<"null", Undef, Undef>>}

\* Bodies of the structure endpoint: no data, data without a project, a
\* project without lists, empty lists, epics and project stories, an epic
\* without stories, and a story the backend lists twice.
Structures ==
    {NoData,
     Data(TRUE, FALSE, FALSE, <<>>, FALSE, <<>>),
     Data(TRUE, TRUE, FALSE, <<>>, FALSE, <<>>),
     Data(TRUE, TRUE, TRUE, <<>>, TRUE, <<>>),
     Data(TRUE, TRUE, TRUE, <<Epic(<<1, 2>>), Epic(<<3>>)>>, TRUE, <<4, 5>>),
     Data(TRUE, TRUE, TRUE, <<Epic(<<2, 1>>), Epic(<<>>), Epic(<<3>>)>>, FALSE, <<>>),
     Data(TRUE, TRUE, FALSE, <<>>, TRUE, <<2, 1>>),
     Data(TRUE, TRUE, TRUE, <<BareEpic, Epic(<<1>>)>>, TRUE, <<2>>),
     Data(TRUE, TRUE, TRUE, <<Epic(<<1, 2>>)>>, TRUE, <<2, 3>>)}

StructureStatuses == {200, 201, 404}

Outcomes ==
    {Outcome(h, TRUE, b[1], b[2], b[3]) : h \in HttpStatuses, b \in Bodies}
    \cup {Outcome(0, sent, "null", Undef, Undef) : sent \in BOOLEAN}
    \cup {StructureOutcome(h, ok, d) :
             h \in StructureStatuses, ok \in {Bool(TRUE), Bool(FALSE), Undef, Num(1)},
             d \in Structures}

GatewayInit ==
    /\ Parked
    /\ stories = <<>> /\ view = NoView
    /\ outcome \in Outcomes /\ probe = NoProbe

\* healthCheck() on the outcome.
HealthChecked ==
    /\ probe = NoProbe
    /\ probe' = healthCheck(outcome)
    /\ UNCHANGED <<currentProjectId, storyStatus, calls, stories, view, outcome>>

\* A request axios rejects goes through the interceptor's rejection handler.
Rejected ==
    /\ probe = NoProbe
    /\ ~Resolves(outcome)
    /\ probe' = Probe("request", "throw", FALSE, InterceptorError(outcome))
    /\ UNCHANGED <<currentProjectId, storyStatus, calls, stories, view, outcome>>

\* getProjectStories() on the outcome.
StoriesFetched ==
    /\ probe = NoProbe
    /\ probe' = getProjectStories(outcome)
    /\ UNCHANGED <<currentProjectId, storyStatus, calls, stories, view, outcome>>

GatewayNext == HealthChecked \/ Rejected \/ StoriesFetched

GatewaySpec == GatewayInit /\ [][GatewayNext]_vars

(***************************************************************************)
(* Vocabulary of the properties.                                           *)
(***************************************************************************)
InFlight(c) == c.pc \notin {"idle", "done"}

\* The step starts a tool call in slot s.
Started(s) == calls[s].pc \in {"idle", "done"} /\ calls'[s].pc # "idle"

\* The handler of slot s resumes from the await of `pc` in this step.
Resumed(s, tool, pc) == At(s, tool, pc) /\ calls'[s] # calls[s]

\* The tools that take an optional project id.
ProjectTools == {"get_project_info", "create_story", "list_my_stories"}

\* The arguments pass the schema of the tool.
ValidArgs(c) ==
    CASE c.tool = "set_project_context" -> SetProjectContextSchema(c.args)
      [] c.tool = "get_project_info" -> GetProjectSchema(c.args)
      [] c.tool = "create_story" -> CreateStorySchema(c.args)
      [] c.tool = "update_story_status" -> UpdateStoryStatusSchema(c.args)
      [] c.tool = "get_story" -> GetStorySchema(c.args)
      [] c.tool = "list_my_stories" -> ListStoriesSchema(c.args)
      [] OTHER -> FALSE

Issued(c, op) == \E i \in DOMAIN c.net : c.net[i].op = op

ReturnedText(c, text) == c.pc = "done" /\ c.result.kind = "return" /\ c.result.text = text
RaisedText(c, text) == c.pc = "done" /\ c.result.kind = "raise" /\ c.result.text = text

\* The transition table as the specification states it.
AllowedPairs == {<<1, 3>>, <<3, 5>>, <<3, 1>>, <<5, 1>>, <<5, 3>>}

\* The story an update call fetched had status c, the call asks for t, and
\* c -> t is a row of the table.
InTable(c) ==
    \E p \in AllowedPairs :
        c.currentStatus = Num(p[1]) /\ ToStatus(c.args.status) = Num(p[2])

(***************************************************************************)
(* C1: an update_story_status call that fetched the story with current     *)
(* status c and asks for an accepted target t issues the status write if   *)
(* and only if c -> t is one of 1->3, 3->5, 3->1, 5->1, 5->3; for every     *)
(* other pair it returns the warning without raising and issues no write.  *)
(***************************************************************************)
C1_TransitionGuard ==
    \A s \in Slots :
        LET c == calls[s] IN
        (c.tool = "update_story_status" /\ c.currentStatus # Undef) =>
            /\ Issued(c, "updateStoryStatus") <=> InTable(c)
            /\ ~InTable(c) => ReturnedText(c, "Invalid Workflow Transition")

\* A Backlog story: one call was refused Done, another is writing In Progress.
C1_Witness ==
    \E s, u \in Slots :
        /\ ReturnedText(calls[s], "Invalid Workflow Transition")
        /\ calls[s].currentStatus = Num(1) /\ calls[s].args.status = Num(5)
        /\ calls[s].net = <<Request("getStory", 1, 0)>>
        /\ calls[u].pc = "updateStoryStatus"
        /\ calls[u].currentStatus = Num(1) /\ calls[u].args.status = Num(3)

(***************************************************************************)
(* C2: when the project fetch of a set_project_context call fails, the     *)
(* call raises and the session context keeps the value it had.             *)
(***************************************************************************)
C2_FailedSetKeepsContext ==
    [][\A s \in Slots :
          (/\ Resumed(s, "set_project_context", "getProject")
           /\ GatewayThrows("getProject", calls'[s].resp))
          => (/\ RaisedText(calls'[s], "Failed to set project context")
              /\ currentProjectId' = currentProjectId)]_vars

\* A failed switch to project 2 with the context still on project 1.
C2_Witness ==
    \E s \in Slots :
        /\ RaisedText(calls[s], "Failed to set project context")
        /\ calls[s].args.project_id = Num(2)
        /\ calls[s].resp.http = 404
        /\ currentProjectId = Num(1)

(***************************************************************************)
(* C3: a schema-valid get_project_info, create_story or list_my_stories    *)
(* call that gives no project id while the session context is unset fails  *)
(* with the 'no project context set' error and issues no backend call.     *)
(***************************************************************************)
C3_NoContextNoCall ==
    [][\A s \in Slots :
          (/\ Started(s)
           /\ calls'[s].tool \in ProjectTools
           /\ ValidArgs(calls'[s])
           /\ calls'[s].args.project_id = Undef
           /\ currentProjectId = Null)
          => (/\ RaisedText(calls'[s], "No project context set")
              /\ calls'[s].net = <<>>)]_vars

C3_Witness ==
    \E s \in Slots :
        /\ currentProjectId = Null
        /\ calls[s].tool = "list_my_stories"
        /\ calls[s].args.project_id = Undef
        /\ RaisedText(calls[s], "No project context set")
        /\ calls[s].net = <<>>

(***************************************************************************)
(* C4.  A create_story call with estimate 6 or 1 and a resolvable project  *)
(* id issues the backend create call, and succeeds when that call does.    *)
(***************************************************************************)
SmallStoryIsCreated(c) ==
    (/\ c.tool = "create_story" /\ c.pc # "idle" /\ CreateStorySchema(c.args)
     /\ c.args.estimate \in {Num(1), Num(6)}
     /\ Truthy(c.projectId))
    => /\ c.net = <<Request("createStory", c.projectId.n, 1)>>
       /\ (c.pc = "done" /\ ~GatewayThrows("createStory", c.resp))
              => ReturnedText(c, "Story Created")

LargeStory(c) ==
    /\ c.tool = "create_story" /\ c.pc # "idle" /\ CreateStorySchema(c.args)
    /\ IsNum(c.args.estimate) /\ c.args.estimate.n > 6

\* C4 as claimed: every create_story call with a valid estimate greater
\* than 6 issues no backend call and returns the decomposition warning, in
\* every session state; estimate 6 and 1 are created.
C4_Original ==
    \A s \in Slots :
        /\ LargeStory(calls[s]) =>
              (calls[s].net = <<>> /\ ReturnedText(calls[s], "Story Too Large"))
        /\ SmallStoryIsCreated(calls[s])

\* C4 as amended: every create_story call with a valid estimate greater than
\* 6 issues no backend call; it returns the decomposition warning when a
\* project id resolves and raises 'no project context set' when none does;
\* estimate 6 and 1 are created.
C4_LargeStoryNeverCreated ==
    \A s \in Slots :
        /\ LargeStory(calls[s]) =>
              /\ calls[s].net = <<>>
              /\ IF Truthy(calls[s].projectId)
                 THEN ReturnedText(calls[s], "Story Too Large")
                 ELSE RaisedText(calls[s], "No project context set")
        /\ SmallStoryIsCreated(calls[s])

\* A 7-hour story was refused while a 6-hour story is being created.
C4_Witness ==
    \E s, u \in Slots :
        /\ ReturnedText(calls[s], "Story Too Large")
        /\ calls[s].args.estimate = Num(7) /\ calls[s].net = <<>>
        /\ calls[u].pc = "createStory" /\ calls[u].args.estimate = Num(6)

(***************************************************************************)
(* C5: every create request create_story sends carries status 1.           *)
(***************************************************************************)
C5_CreatedInBacklog ==
    \A s \in Slots : \A i \in DOMAIN calls[s].net :
        calls[s].net[i].op = "createStory" => calls[s].net[i].status = 1

\* A create request is out for a story with an estimate, another for one
\* without.
C5_Witness ==
    \E s, u \in Slots :
        /\ calls[s].pc = "createStory" /\ calls[s].args.estimate = Undef
        /\ calls[u].pc = "createStory" /\ calls[u].args.estimate = Num(1)
        /\ calls[u].args.epic_id = Undef

(***************************************************************************)
(* C6: the session context changes only in the step in which a             *)
(* set_project_context call resumes from a project fetch that succeeded,   *)
(* and then to that call's project id; no other step of any tool changes   *)
(* it.                                                                     *)
(***************************************************************************)
C6_OnlySetContextWrites ==
    [][currentProjectId' # currentProjectId =>
          \E s \in Slots :
              /\ Resumed(s, "set_project_context", "getProject")
              /\ ~GatewayThrows("getProject", calls'[s].resp)
              /\ ReturnedText(calls'[s], "Project context set")
              /\ currentProjectId' = calls[s].args.project_id]_vars

\* Project 2 was set as context while a get_project_info call on the old
\* context is still in flight.
C6_Witness ==
    \E s, u \in Slots :
        /\ ReturnedText(calls[s], "Project context set")
        /\ calls[s].args.project_id = Num(2) /\ currentProjectId = Num(2)
        /\ calls[u].tool = "get_project_info" /\ InFlight(calls[u])
        /\ calls[u].projectId = Num(1)

(***************************************************************************)
(* C7: with the context unset a get_project_info call without an id fails; *)
(* a set_project_context(p) that succeeds leaves the context at p; and a   *)
(* schema-valid get_project_info, create_story or list_my_stories call     *)
(* without an id that starts while the context is p resolves to p and      *)
(* sends each of its backend requests to p.                                *)
(***************************************************************************)
NoIdCall(c) ==
    c.tool \in ProjectTools /\ ValidArgs(c) /\ c.args.project_id = Undef

C7_ContextIsUsed ==
    [][\A s \in Slots :
          /\ (Started(s) /\ NoIdCall(calls'[s]) /\ currentProjectId = Null)
                => RaisedText(calls'[s], "No project context set")
          /\ (Resumed(s, "set_project_context", "getProject")
                 /\ calls'[s].result.kind = "return")
                => currentProjectId' = calls[s].args.project_id
          /\ (Started(s) /\ NoIdCall(calls'[s]) /\ Truthy(currentProjectId))
                => /\ calls'[s].projectId = currentProjectId
                   /\ ~RaisedText(calls'[s], "No project context set")
                   /\ calls'[s].tool # "create_story" => calls'[s].net # <<>>
                   /\ \A i \in DOMAIN calls'[s].net :
                         calls'[s].net[i].id = currentProjectId.n
          /\ (InFlight(calls[s]) /\ NoIdCall(calls[s]))
                => \A i \in DOMAIN calls'[s].net :
                      calls'[s].net[i].id = calls[s].projectId.n]_vars

\* The context is 2, and a get_project_info call without an id has sent both
\* of its fetches to project 2.
C7_Witness ==
    \E s \in Slots :
        /\ currentProjectId = Num(2)
        /\ calls[s].tool = "get_project_info" /\ calls[s].args.project_id = Undef
        /\ calls[s].net = <<Request("getProject", 2, 0), Request("getProjectStories", 2, 0)>>

(***************************************************************************)
(* C8 as claimed: when a get_project_info, create_story or list_my_stories *)
(* call gives an explicit project id its schema accepts, every backend     *)
(* request of the call targets that id, whatever the session context.      *)
(***************************************************************************)
C8_ExplicitIdWins ==
    \A s \in Slots :
        LET c == calls[s] IN
        (c.tool \in ProjectTools /\ ValidArgs(c) /\ c.args.project_id # Undef) =>
            \A i \in DOMAIN c.net : c.net[i].id = c.args.project_id.n

C10_OneAtATime ==
    Cardinality({s \in Slots : InFlight(calls[s])}) <= 1

(***************************************************************************)
(* C11 as claimed: update_story_status issues a status write only for a    *)
(* forward move, Backlog -> In Progress (1 -> 3) or In Progress -> Done    *)
(* (3 -> 5); no write moves a story backwards.                             *)
(***************************************************************************)
ForwardPairs == {<<1, 3>>, <<3, 5>>}

C11_ForwardOnly ==
    \A s \in Slots : \A i \in DOMAIN calls[s].net :
        calls[s].net[i].op = "updateStoryStatus" =>
            \E p \in ForwardPairs :
                calls[s].currentStatus = Num(p[1]) /\ calls[s].net[i].status = p[2]

(***************************************************************************)
(* C12: a call of one of the six tools whose arguments violate the         *)
(* declared shape (a required field missing, an empty story name, an       *)
(* estimate that is not positive or exceeds 8, a non-positive id where     *)
(* positivity is declared, a status outside the enumeration) raises,       *)
(* issues no backend call and leaves the session context as it was.        *)
(***************************************************************************)
Tools ==
    {"set_project_context", "get_project_info", "create_story",
     "update_story_status", "get_story", "list_my_stories"}

\* The shape violations the claim lists, tool by tool.
Malformed(c) ==
    LET a == c.args IN
    CASE c.tool = "set_project_context" ->
             a.project_id = Undef \/ (IsNum(a.project_id) /\ a.project_id.n <= 0)
      [] c.tool = "get_project_info" ->
             IsNum(a.project_id) /\ a.project_id.n <= 0
      [] c.tool = "create_story" ->
             \/ a.name = Undef \/ a.name = Str("")
             \/ IsNum(a.estimate) /\ (a.estimate.n <= 0 \/ a.estimate.n > 8)
      [] c.tool = "update_story_status" ->
             \/ a.story_id = Undef \/ a.status = Undef
             \/ IsNum(a.story_id) /\ a.story_id.n <= 0
             \/ IsStr(a.status) /\ a.status.s \notin {"1", "3", "5"}
             \/ IsNum(a.status) /\ (a.status.n < 1 \/ a.status.n > 5)
      [] c.tool = "get_story" -> a.story_id = Undef
      [] c.tool = "list_my_stories" ->
             IsStr(a.status) /\ a.status.s \notin {"1", "3", "5", "all"}
      [] OTHER -> FALSE

C12_InvalidArgsRejected ==
    [][\A s \in Slots :
          (/\ Started(s)
           /\ calls'[s].tool \in Tools
           /\ Malformed(calls'[s]) \/ ~ValidArgs(calls'[s]))
          => (/\ calls'[s].pc = "done"
              /\ calls'[s].result.kind = "raise"
              /\ calls'[s].result.text = "Tool execution failed"
              /\ calls'[s].net = <<>>
              /\ currentProjectId' = currentProjectId)]_vars

\* A story with a 9-hour estimate was rejected, no request sent, the
\* context still unset.
C12_Witness ==
    \E s \in Slots :
        /\ calls[s].tool = "create_story" /\ calls[s].args.estimate = Num(9)
        /\ RaisedText(calls[s], "Tool execution failed")
        /\ calls[s].net = <<>>
        /\ currentProjectId = Null

(***************************************************************************)
(* C13 as claimed: an update_story_status call whose target status is not  *)
(* 1, 3 or 5 (in numeric or string form), such as 2 or 4, is rejected with *)
(* a validation error before the story is fetched or any other backend     *)
(* call is made.                                                           *)
(***************************************************************************)
C13_OnlyWorkflowTargets ==
    \A s \in Slots :
        LET c == calls[s] IN
        (/\ c.tool = "update_story_status"
         /\ ToStatus(c.args.status) \notin {Num(1), Num(3), Num(5)})
        => (RaisedText(c, "Tool execution failed") /\ c.net = <<>>)

(***************************************************************************)
(* C14 as claimed: the warning of every rejected transition names the      *)
(* story's current status by its label, and lists as valid next steps      *)
(* exactly the labels of the allowed targets of that status in the         *)
(* transition table.                                                       *)
(***************************************************************************)
Labels == {"Backlog", "In Progress", "Done"}

LabelOf(k) ==
    CASE k = 1 -> "Backlog" [] k = 3 -> "In Progress" [] k = 5 -> "Done"

C14_WarningNamesStatus ==
    \A s \in Slots :
        LET c == calls[s]
            w == c.result.detail
        IN ReturnedText(c, "Invalid Workflow Transition") =>
              /\ w.current \in Labels
              /\ \A k \in {1, 3, 5} :
                    c.currentStatus = Num(k) =>
                       /\ w.current = LabelOf(k)
                       /\ {w.steps[i] : i \in DOMAIN w.steps}
                             = {LabelOf(p[2]) : p \in {q \in AllowedPairs : q[1] = k}}
              /\ \A i \in DOMAIN w.steps : w.steps[i] \in Labels

(***************************************************************************)
(* C18: when a backend call of a tool call fails, the tool call ends in a  *)
(* raised failure that carries the gateway's message, never in a returned  *)
(* response; and a returned response that is not the tool's success        *)
(* response is one of three warnings, each in its business-rule case: the  *)
(* estimate above 6, the transition outside the table, the filtered list   *)
(* empty.                                                                  *)
(***************************************************************************)
\* The handler of slot s consumes a response and ends in this step.
Settles(s) == InFlight(calls[s]) /\ calls'[s].pc = "done"

SuccessTexts ==
    {"Project context set", "Project info", "Story Created", "Story Updated",
     "Story", "Stories"}

\* The stories a list_my_stories call keeps, the backend holding `status`.
Kept(c, status) ==
    IF Truthy(c.args.status) /\ c.args.status # Str("all")
    THEN SelectSeq(ProjectStories(c.projectId.n, status),
                   LAMBDA st : ToStatus(st.status) = ParseInt(c.args.status.s))
    ELSE ProjectStories(c.projectId.n, status)

C18_BackendFailureRaises ==
    [][\A s \in Slots :
          LET c == calls'[s] IN
          /\ (Settles(s) /\ GatewayThrows(calls[s].pc, c.resp))
                => /\ c.result.kind = "raise"
                   /\ c.result.code \in {"InternalError", "InvalidRequest"}
                   /\ c.result.msg = GatewayMessage(calls[s].pc, c.resp)
          /\ (calls[s] # c /\ c.pc = "done" /\ c.result.kind = "return"
                 /\ c.result.text \notin SuccessTexts)
                => \/ /\ c.result.text = "Story Too Large"
                      /\ LargeStory(c) /\ c.net = <<>>
                   \/ /\ c.result.text = "Invalid Workflow Transition"
                      /\ c.tool = "update_story_status" /\ ~InTable(c)
                      /\ ~GatewayThrows("getStory", c.resp)
                   \/ /\ c.result.text = "No Stories Found"
                      /\ c.tool = "list_my_stories"
                      /\ Len(Kept(c, storyStatus)) = 0
                      /\ ~GatewayThrows("getProjectStories", c.resp)]_vars

\* The stories fetch of a get_project_info call came back without the
\* expected structure, and the call raised with the gateway's message.
C18_Witness ==
    \E s \in Slots :
        /\ RaisedText(calls[s], "Failed to get project info")
        /\ Len(calls[s].net) = 2
        /\ calls[s].resp = Response(200, FALSE)
        /\ calls[s].result.msg = "Unable to get project stories from structure endpoint"

(***************************************************************************)
(* Vocabulary of the rendering properties.  In a story list of StoryLists  *)
(* the id of a story is its position in backend order.                     *)
(***************************************************************************)
\* The status values a filter selects, in numeric and in string form.
FilterValues(f) ==
    CASE f = Str("1") -> {Num(1), Str("1")}
      [] f = Str("3") -> {Num(3), Str("3")}
      [] f = Str("5") -> {Num(5), Str("5")}

\* The positions of the stories a filter selects: all of them for 'all' and
\* for no filter.
Selected(f) ==
    IF f \in {Undef, Str("all")} THEN DOMAIN stories
    ELSE {i \in DOMAIN stories : stories[i].status \in FilterValues(f)}

\* The k-th position of the set P, in backend order.
IsKth(P, i, k) == i \in P /\ Cardinality({j \in P : j < i}) = k - 1

Listed == view.tool = "list_my_stories"

\* The stories the text leaves out, by its suffix.
Omitted == IF view.response.more = <<>> THEN 0 ELSE view.response.more[1]

(***************************************************************************)
(* C15: when the (filtered) set has n > 0 stories, list_my_stories renders *)
(* its first min(n, 10) stories in backend order; for n > 10 the text ends *)
(* with '... and n-10 more', for n <= 10 it has no such suffix.            *)
(***************************************************************************)
C15_FirstTenAndCount ==
    LET P == Selected(view.filter)
        n == Cardinality(P)
        L == view.response.list
    IN (Listed /\ n > 0) =>
          /\ Len(L) = IF n < 10 THEN n ELSE 10
          /\ \A k \in DOMAIN L : IsKth(P, L[k].id, k)
          /\ n > 10 => view.response.more = <<n - 10>>
          /\ n <= 10 => view.response.more = <<>>

\* Of 11 stories In Progress among others, ten are listed and one is left out.
C15_Witness ==
    /\ Listed /\ view.filter = Str("3")
    /\ Cardinality(Selected(Str("3"))) = 11
    /\ Len(stories) > 11
    /\ Len(view.response.list) = 10
    /\ view.response.more = <<1>>

(***************************************************************************)
(* C16: with filter 1, 3 or 5 list_my_stories lists stories whose status   *)
(* equals the filter, in numeric or string form, and only those: every     *)
(* line is such a story and every such story is a line or counted as       *)
(* omitted; with 'all' or no filter the same holds of all stories; when no *)
(* story is selected the response is the returned 'No Stories Found',      *)
(* which names the label of a filter 1, 3 or 5.                            *)
(***************************************************************************)
C16_FilterByStatus ==
    LET P == Selected(view.filter)
        L == view.response.list
    IN Listed =>
          /\ \A k \in DOMAIN L : L[k].id \in P
          /\ \A k, m \in DOMAIN L : L[k].id = L[m].id => k = m
          /\ Len(L) + Omitted = Cardinality(P)
          /\ Cardinality(P) <= 10 => {L[k].id : k \in DOMAIN L} = P
          /\ view.response.text = IF P = {} THEN "No Stories Found" ELSE "Stories"
          /\ view.response.name =
                CASE view.filter = Str("1") -> "Backlog"
                  [] view.filter = Str("3") -> "In Progress"
                  [] view.filter = Str("5") -> "Done"
                  [] OTHER -> ""

\* Filter 3 on a list with stories of other statuses: a story whose status
\* is the string "3" is among the lines.
C16_Witness ==
    /\ Listed /\ view.filter = Str("3")
    /\ \E k \in DOMAIN view.response.list :
          stories[view.response.list[k].id].status = Str("3")
    /\ \E i \in DOMAIN stories : stories[i].status = Num(3)
    /\ Len(view.response.list) < Len(stories)

(***************************************************************************)
(* C17: get_project_info reports the number of stories in Backlog (1), In  *)
(* Progress (3) and Done (5); its 'next to work on' list is the first      *)
(* min(3, k) stories In Progress when k > 0 of them are, and the first     *)
(* min(3, b) Backlog stories otherwise.                                    *)
(***************************************************************************)
C17_CountsAndNext ==
    LET B == Selected(Str("1"))
        I == Selected(Str("3"))
        D == Selected(Str("5"))
        N == view.response.next
        From == IF I # {} THEN I ELSE B
    IN view.tool = "get_project_info" =>
          /\ view.response.backlog = Cardinality(B)
          /\ view.response.inProgress = Cardinality(I)
          /\ view.response.done = Cardinality(D)
          /\ Len(N) = IF Cardinality(From) < 3 THEN Cardinality(From) ELSE 3
          /\ \A k \in DOMAIN N : IsKth(From, N[k], k)

\* Nothing is in progress and more than three stories are in the backlog:
\* the first three of them are next.
C17_Witness ==
    /\ view.tool = "get_project_info"
    /\ view.response.inProgress = 0 /\ view.response.backlog > 3
    /\ view.response.done > 0
    /\ Len(view.response.next) = 3

(***************************************************************************)
(* C19: the health probe never raises; whatever the backend outcome (an    *)
(* error status, no response, a malformed body) it returns a boolean, true *)
(* only when a delivered response reports success, false on every failure. *)
(***************************************************************************)
C19_HealthProbeTotal ==
    probe.op = "healthCheck" =>
        /\ probe.kind = "return"
        /\ probe.value \in BOOLEAN
        /\ probe.value => (/\ Resolves(outcome)
                           /\ outcome.body = "object"
                           /\ outcome.success = Bool(TRUE))
        /\ (\/ ~Resolves(outcome)
            \/ outcome.body = "null"
            \/ outcome.success \in {Bool(FALSE), Undef}) => probe.value = FALSE

\* A 200 response without a body: the probe answered false.
C19_Witness ==
    /\ probe.op = "healthCheck"
    /\ outcome.http = 200 /\ outcome.body = "null"
    /\ probe.kind = "return" /\ probe.value = FALSE

(***************************************************************************)
(* C20: the gateway maps a failed transport outcome to one error kind: 401 *)
(* to the authentication failure, 403 to access denied, 404 to not found,  *)
(* a status of 500 or more to the server error, any other error status to  *)
(* the API error, which carries the message of the backend when its body   *)
(* has one, and no response at all to a request that was sent to the       *)
(* connectivity error.                                                     *)
(***************************************************************************)
C20_ErrorKinds ==
    (probe.op = "request" /\ outcome.request) =>
        /\ probe.kind = "throw"
        /\ probe.error.kind =
              CASE outcome.http = 0 -> "Unable to connect to SoftYPM"
                [] outcome.http = 401 -> "Authentication failed"
                [] outcome.http = 403 -> "Access denied"
                [] outcome.http = 404 -> "Resource not found"
                [] outcome.http >= 500 -> "SoftYPM server error"
                [] OTHER -> "API Error"
        /\ (probe.error.kind = "API Error" /\ outcome.message = Str("m"))
              => probe.error.message = "m"

\* A 422 with a message from the backend became an API error carrying it.
C20_Witness ==
    /\ probe.op = "request"
    /\ outcome.http = 422 /\ outcome.message = Str("m")
    /\ probe.error = Error("API Error", "m")

(***************************************************************************)
(* C22: an update_story_status call issues the story fetch first and the   *)
(* status write at most once, in the step in which the fetch returns       *)
(* without failure; when the fetch fails no write is issued and the call   *)
(* raises; 'Story Updated', naming the old and the new status, is returned *)
(* only in the step in which the write returns without failure, and a      *)
(* failed write makes the call raise.                                      *)
(***************************************************************************)
C22_FetchThenWrite ==
    [][\A s \in Slots :
          LET c == calls[s]
              d == calls'[s]
              fetch == Request("getStory", d.args.story_id.n, 0)
          IN (d.tool = "update_story_status" /\ d # c /\ d.pc # "idle") =>
                /\ \/ d.net = <<>>
                   \/ d.net = <<fetch>>
                   \/ /\ Len(d.net) = 2 /\ d.net[1] = fetch
                      /\ d.net[2].op = "updateStoryStatus"
                      /\ d.net[2].id = d.args.story_id.n
                /\ d.pc = "getStory" => d.net = <<fetch>>
                /\ (Len(d.net) = 2 /\ Len(c.net) < 2)
                      => (At(s, "update_story_status", "getStory") /\ ~d.failed)
                /\ (Resumed(s, "update_story_status", "getStory") /\ d.failed)
                      => (d.net = <<fetch>> /\ d.result.kind = "raise")
                /\ ReturnedText(d, "Story Updated")
                      => /\ At(s, "update_story_status", "updateStoryStatus")
                         /\ ~GatewayThrows("updateStoryStatus", d.resp)
                         /\ d.result.detail.from = statusNames(d.currentStatus)
                         /\ d.result.detail.to = statusNames(ToStatus(d.args.status))
                /\ (Resumed(s, "update_story_status", "updateStoryStatus")
                       /\ GatewayThrows("updateStoryStatus", d.resp))
                      => d.result.kind = "raise"]_vars

\* A Done story was reopened: fetch, write, then 'Done -> Backlog'.
C22_Witness ==
    \E s \in Slots :
        /\ ReturnedText(calls[s], "Story Updated")
        /\ calls[s].net = <<Request("getStory", 1, 0), Request("updateStoryStatus", 1, 1)>>
        /\ calls[s].resp = Response(200, TRUE)
        /\ calls[s].result.detail.from = "Done"
        /\ calls[s].result.detail.to = "Backlog"

(***************************************************************************)
(* C23: the backend calls a tool call has issued are an initial part of    *)
(* the tool's sequence of calls, each at most once (set_project_context:   *)
(* the project fetch; get_project_info: the project fetch, the stories     *)
(* fetch; create_story: the create; update_story_status: the story fetch,  *)
(* the write; get_story: the story fetch; list_my_stories: the stories     *)
(* fetch), and a tool call one of whose backend calls failed has ended,    *)
(* raising, without a further backend call.                                *)
(***************************************************************************)
BackendCalls(tool) ==
    CASE tool = "set_project_context" -> <<"getProject">>
      [] tool = "get_project_info" -> <<"getProject", "getProjectStories">>
      [] tool = "create_story" -> <<"createStory">>
      [] tool = "update_story_status" -> <<"getStory", "updateStoryStatus">>
      [] tool = "get_story" -> <<"getStory">>
      [] tool = "list_my_stories" -> <<"getProjectStories">>
      [] OTHER -> <<>>

C23_NoRetry ==
    \A s \in Slots :
        LET c == calls[s] IN
        /\ Len(c.net) <= Len(BackendCalls(c.tool))
        /\ \A i \in DOMAIN c.net : c.net[i].op = BackendCalls(c.tool)[i]
        /\ c.failed =>
              /\ c.pc = "done" /\ c.result.kind = "raise"
              /\ GatewayThrows(LastRequest(c).op, c.resp)

\* The project fetch of a get_project_info call failed: the call raised and
\* the stories fetch was never sent.
C23_Witness ==
    \E s \in Slots :
        /\ calls[s].tool = "get_project_info" /\ calls[s].failed
        /\ calls[s].net = <<Request("getProject", 2, 0)>>
        /\ calls[s].resp.http = 404
        /\ RaisedText(calls[s], "Failed to get project info")

(***************************************************************************)
(* C24 as claimed: every change of a story's status in the backend is a    *)
(* move of the transition table from the status the story has in the       *)
(* backend when the write is applied, also with several update calls in    *)
(* flight.                                                                 *)
(***************************************************************************)
C24_MovesOfTheTable ==
    [][storyStatus' # storyStatus =>
          \E p \in AllowedPairs :
              ToStatus(storyStatus) = Num(p[1]) /\ storyStatus' = Num(p[2])]_vars

(***************************************************************************)
(* C25: a tool call resolves its project id once, when it starts: while    *)
(* the call is in flight the resolved id does not change, whatever happens *)
(* to the session context, and every backend request of a                  *)
(* get_project_info, create_story or list_my_stories call targets it; so   *)
(* the two fetches of get_project_info target the same project.            *)
(***************************************************************************)
C25_ResolvedOnce ==
    [][\A s \in Slots :
          LET c == calls[s]
              d == calls'[s]
          IN /\ (InFlight(c) /\ d.pc # "idle") => d.projectId = c.projectId
             /\ d.tool \in ProjectTools =>
                   \A i \in DOMAIN d.net : d.net[i].id = d.projectId.n
             /\ (d.tool = "get_project_info" /\ Len(d.net) = 2)
                   => d.net[1].id = d.net[2].id]_vars

\* A get_project_info call without an id sent both fetches to project 1,
\* although the context was switched to project 2 between the two.
C25_Witness ==
    \E s \in Slots :
        /\ calls[s].tool = "get_project_info" /\ calls[s].args.project_id = Undef
        /\ calls[s].net = <<Request("getProject", 1, 0), Request("getProjectStories", 1, 0)>>
        /\ currentProjectId = Num(2)

(***************************************************************************)
(* C26: on a delivered response the status write of the gateway fails if   *)
(* and only if the success flag is not set and the HTTP status is not 200; *)
(* on every HTTP 200 response update_story_status returns 'Story Updated', *)
(* also when the body reports success = false.                             *)
(***************************************************************************)
C26_Http200IsSuccess ==
    [][\A s \in Slots :
          LET d == calls'[s] IN
          Resumed(s, "update_story_status", "updateStoryStatus") =>
             /\ Resolves(d.resp) =>
                   ((d.result.kind = "raise") <=> (~d.resp.success /\ d.resp.http # 200))
             /\ d.resp.http = 200 => ReturnedText(d, "Story Updated")]_vars

\* The backend answered the write with 200 and success = false: the call
\* returned the confirmation.
C26_Witness ==
    \E s \in Slots :
        /\ ReturnedText(calls[s], "Story Updated")
        /\ calls[s].resp = Response(200, FALSE)

(***************************************************************************)
(* C21: from a response that has the structure (a success flag, the data   *)
(* and its project) the stories fetch returns one sequence: the stories of *)
(* the epics, epic after epic, each epic's stories in their order, then    *)
(* the project-level stories in their order, every entry once; a list the  *)
(* project or an epic does not have counts as empty.  When the backend     *)
(* lists no story twice, no story is dropped or duplicated.  From a        *)
(* delivered response without that structure the fetch fails; it does not  *)
(* return an empty list.                                                   *)
(***************************************************************************)
Fetched == probe.op = "getProjectStories"

HasStructure ==
    /\ Resolves(outcome) /\ outcome.body = "object"
    /\ Truthy(outcome.success) /\ outcome.data.present /\ outcome.data.project

\* The stories of epic e, and of the project: none when the list is missing.
OfEpic(e) ==
    IF outcome.data.hasEpics /\ outcome.data.epics[e].hasStories
    THEN outcome.data.epics[e].stories ELSE <<>>
OfProject == IF outcome.data.hasStories THEN outcome.data.stories ELSE <<>>

EpicIndexes == IF outcome.data.hasEpics THEN DOMAIN outcome.data.epics ELSE {}

\* The number of stories in the epics before epic e.
RECURSIVE Before(_)
Before(e) == IF e <= 1 THEN 0 ELSE Before(e - 1) + Len(OfEpic(e - 1))

InEpics == IF EpicIndexes = {} THEN 0 ELSE Before(Len(outcome.data.epics) + 1)

\* The backend lists every story once.
ListedOnce ==
    /\ \A e \in EpicIndexes : \A i, j \in DOMAIN OfEpic(e) :
          OfEpic(e)[i] = OfEpic(e)[j] => i = j
    /\ \A e, f \in EpicIndexes : \A i \in DOMAIN OfEpic(e) : \A j \in DOMAIN OfEpic(f) :
          OfEpic(e)[i] = OfEpic(f)[j] => e = f
    /\ \A i, j \in DOMAIN OfProject : OfProject[i] = OfProject[j] => i = j
    /\ \A e \in EpicIndexes : \A i \in DOMAIN OfEpic(e) : \A j \in DOMAIN OfProject :
          OfEpic(e)[i] # OfProject[j]

====
